---- MODULE Spec2Model ----
(***************************************************************************)
(* Model of pytransform3d/trajectories.py and pytransform/camera.py.       *)
(*                                                                         *)
(* One call runs at a time.  A call binds the caller's arrays to buffers   *)
(* of a heap, and then executes the statements of the function one by one  *)
(* (pc names the source line that runs next).  Arrays are heap buffers;    *)
(* local names are bound to buffer ids in env, so that np.asarray of an    *)
(* ndarray, which returns its argument, aliases the caller's array, and    *)
(* every in-place write goes to whatever buffer the name is bound to.      *)
(*                                                                         *)
(* Numbers are exact rationals <<n, d>>; a non-finite float (the result    *)
(* of a division by zero) is <<0, 0>> and a cell of np.empty that no       *)
(* statement has written yet is <<1, 0>>.                                  *)
(***************************************************************************)
EXTENDS Integers, Sequences, FiniteSets, TLC

VARIABLES
    pc,      \* the statement that runs next ("idle" between calls)
    fn,      \* the function the caller called
    heap,    \* buffer id -> array [kind, shape, inst, wr]
    env,     \* local name -> array reference (or a scalar argument)
    caller,  \* the caller's arrays as they were when the call started
    ret,     \* the reference returned (NoRef before the return)
    exc,     \* <<exception, line of the raise>> (NoExc when none)
    divs     \* TRUE once a float division had a zero divisor

vars == <<pc, fn, heap, env, caller, ret, exc, divs>>

(***************************************************************************)
(* Bounds                                                                  *)
(***************************************************************************)
MaxBatch == 2

(***************************************************************************)
(* Exact rational arithmetic                                               *)
(***************************************************************************)
RECURSIVE Gcd(_, _)
Gcd(a, b) == IF b = 0 THEN a ELSE Gcd(b, a % b)

Abs(x) == IF x < 0 THEN -x ELSE x

NonFinite == <<0, 0>>
Unwritten == <<1, 0>>

IsNum(x) == x[2] > 0

Rat(n, d) ==
    IF d = 0 THEN NonFinite
    ELSE LET g == Gcd(Abs(n), Abs(d))
             s == IF d < 0 THEN -1 ELSE 1
         IN  <<(s * n) \div g, (s * d) \div g>>

I(n) == <<n, 1>>

RAdd(a, b) ==
    IF IsNum(a) /\ IsNum(b)
    THEN LET g == Gcd(a[2], b[2])
         IN  Rat(a[1] * (b[2] \div g) + b[1] * (a[2] \div g), (a[2] \div g) * b[2])
    ELSE NonFinite

RNeg(a) == IF IsNum(a) THEN <<-a[1], a[2]>> ELSE NonFinite

RSub(a, b) == RAdd(a, RNeg(b))

RMul(a, b) ==
    IF IsNum(a) /\ IsNum(b)
    THEN LET g1 == Gcd(Abs(a[1]), b[2])
             g2 == Gcd(Abs(b[1]), a[2])
         IN  Rat((a[1] \div g1) * (b[1] \div g2), (a[2] \div g2) * (b[2] \div g1))
    ELSE NonFinite

RDiv(a, b) ==
    IF IsNum(a) /\ IsNum(b) /\ b[1] # 0
    THEN RMul(a, Rat(b[2], b[1]))
    ELSE NonFinite

ISqrt(n) == CHOOSE r \in 0..n : r * r = n

\* np.sqrt on the squares the model's inputs produce
RSqrt(a) == IF IsNum(a) THEN <<ISqrt(a[1]), ISqrt(a[2])>> ELSE NonFinite

RECURSIVE SumSq(_, _)
SumSq(v, k) == IF k = 0 THEN I(0) ELSE RAdd(SumSq(v, k - 1), RMul(v[k], v[k]))

\* np.linalg.norm(v): sqrt of the sum of squares
Norm(v) == RSqrt(SumSq(v, Len(v)))

\* np.sin and np.cos on the angles the model's inputs produce, to two decimals
Sin(x) ==
    CASE x = I(0) -> I(0)
      [] x = I(1) -> Rat(84, 100)
      [] x = I(2) -> Rat(91, 100)
      [] x = I(3) -> Rat(14, 100)
      [] OTHER -> NonFinite

Cos(x) ==
    CASE x = I(0) -> I(1)
      [] x = I(1) -> Rat(54, 100)
      [] x = I(2) -> Rat(-42, 100)
      [] x = I(3) -> Rat(-99, 100)
      [] OTHER -> NonFinite

RVec(v) == [k \in 1..Len(v) |-> I(v[k])]

(***************************************************************************)
(* Arrays                                                                  *)
(***************************************************************************)
RECURSIVE Prod(_, _)
Prod(s, k) == IF k = 0 THEN 1 ELSE s[k] * Prod(s, k - 1)

\* the number of instances of a leading shape
NumInst(S) == Prod(S, Len(S))

\* leading instance shapes of zero, one or two dimensions
LeadShapes ==
    {<<>>} \cup {<<n>> : n \in 0..MaxBatch}
           \cup {<<a, b>> : a, b \in {x \in 0..MaxBatch : TRUE}}

Shapes == {S \in LeadShapes : NumInst(S) <= MaxBatch}

Kinds == {"ndarray", "list"}

\* an array the caller passes: its instances are drawn from Samples
Arrays(Samples, width) ==
    UNION {{[kind |-> k, shape |-> S \o width, inst |-> x] :
                k \in Kinds, x \in [1..NumInst(S) -> Samples]} : S \in Shapes}

\* np.empty(shape): no cell written
Empty44 == [r \in 1..4 |-> [c \in 1..4 |-> Unwritten]]
NoLine44 == [r \in 1..4 |-> [c \in 1..4 |-> 0]]

EmptyH(S) ==
    [kind |-> "ndarray", shape |-> S \o <<4, 4>>,
     inst |-> [i \in 1..NumInst(S) |-> Empty44],
     wr |-> [i \in 1..NumInst(S) |-> NoLine44]]

\* a new array computed by an expression
NewArray(S, x) == [kind |-> "ndarray", shape |-> S, inst |-> x]

\* the selection of every instance
All == <<>>

\* an assignment H[sel, rows, cols] = val, made by the statement at `line`:
\* the cells (r, c) of Cells of every instance i with sel[i] get val[i][r][c];
\* sel = All selects every instance
WriteCells(arr, sel, Cells, val, line) ==
    [arr EXCEPT
        !.inst = [i \in DOMAIN arr.inst |->
                    IF sel = All \/ sel[i]
                    THEN LET m == val[i]
                         IN  [r \in 1..4 |-> [c \in 1..4 |->
                                IF <<r, c>> \in Cells
                                THEN m[r][c] ELSE arr.inst[i][r][c]]]
                    ELSE arr.inst[i]],
        !.wr = [i \in DOMAIN arr.inst |->
                    [r \in 1..4 |-> [c \in 1..4 |->
                        IF (sel = All \/ sel[i]) /\ <<r, c>> \in Cells
                        THEN line ELSE arr.wr[i][r][c]]]]]

\* np.empty((n, 7)): no component written
EmptyP(n) ==
    [kind |-> "ndarray", shape |-> <<n, 7>>,
     inst |-> [i \in 1..n |-> [k \in 1..7 |-> Unwritten]],
     wr |-> [i \in 1..n |-> [k \in 1..7 |-> 0]]]

\* an assignment P[:, comps] = val, made by the statement at `line`
WriteComps(arr, Comps, val, line) ==
    [arr EXCEPT
        !.inst = [i \in DOMAIN arr.inst |->
                    LET v == val[i]
                    IN  [k \in 1..7 |-> IF k \in Comps THEN v[k] ELSE arr.inst[i][k]]],
        !.wr = [i \in DOMAIN arr.inst |-> [k \in 1..7 |->
                    IF k \in Comps THEN line ELSE arr.wr[i][k]]]]

RotCells == (1..3) \X (1..3)
TransCells == (1..3) \X {4}
BottomCells == {4} \X (1..4)

\* a value for the translation column, and one for the bottom row
Column(p) == [r \in 1..3 |-> (4 :> p[r])]
BottomRow(x) == (4 :> x)

\* a reference to a buffer: the whole array (from = 0), or the view
\* [..., from:] of its trailing axis
Ref(id) == [buf |-> id, from |-> 0]
View(ref, k) == [buf |-> ref.buf, from |-> ref.from + k]

\* the rows an array reference reads
Rows(h, ref) ==
    [i \in DOMAIN h[ref.buf].inst |->
        SubSeq(h[ref.buf].inst[i], ref.from + 1, Len(h[ref.buf].inst[i]))]

\* np.asarray(x): x itself when x is an ndarray, a new array otherwise
AsArray(h, id, ref) ==
    IF h[ref.buf].kind = "ndarray" THEN [heap |-> h, ref |-> ref]
    ELSE [heap |-> h @@ (id :> [h[ref.buf] EXCEPT !.kind = "ndarray"]),
          ref |-> Ref(id)]

(***************************************************************************)
(* Shapes: basic indexing and the broadcast of an assignment               *)
(***************************************************************************)
Min(a, b) == IF a < b THEN a ELSE b
Max(a, b) == IF a > b THEN a ELSE b

\* index items: ":" , ":k", "k:" and the integer k
Colon == <<"all", 0>>
UpTo(k) == <<"to", k>>
From(k) == <<"from", k>>
At(k) == <<"at", k>>

RECURSIVE Sliced(_, _, _)
Sliced(shape, idx, k) ==
    IF k > Len(idx) THEN SubSeq(shape, k, Len(shape))
    ELSE (CASE idx[k][1] = "all" -> <<shape[k]>>
            [] idx[k][1] = "to" -> <<Min(idx[k][2], shape[k])>>
            [] idx[k][1] = "from" -> <<Max(shape[k] - idx[k][2], 0)>>
            [] OTHER -> <<>>) \o Sliced(shape, idx, k + 1)

\* the shape of a[idx]; not ok: IndexError (too many indices, or an integer
\* index out of bounds)
IndexShape(shape, idx) ==
    IF \/ Len(idx) > Len(shape)
       \/ \E k \in 1..Len(idx) : idx[k][1] = "at" /\ idx[k][2] >= shape[k]
    THEN [ok |-> FALSE, shape |-> <<>>]
    ELSE [ok |-> TRUE, shape |-> Sliced(shape, idx, 1)]

RECURSIVE StripOnes(_, _)
StripOnes(v, n) == IF Len(v) > n /\ v[1] = 1 THEN StripOnes(Tail(v), n) ELSE v

\* whether a value of shape v can be assigned to a target of shape t
Broadcastable(v, t) ==
    LET w == StripOnes(v, Len(t))
    IN  /\ Len(w) <= Len(t)
        /\ \A k \in 1..Len(w) : w[Len(w) - k + 1] \in {1, t[Len(t) - k + 1]}

(***************************************************************************)
(* RotationMath                                                            *)
(***************************************************************************)
Eye3 == [r \in 1..3 |-> [c \in 1..3 |-> IF r = c THEN I(1) ELSE I(0)]]

Skew(o) ==
    <<<<I(0), RNeg(o[3]), o[2]>>,
      <<o[3], I(0), RNeg(o[1])>>,
      <<RNeg(o[2]), o[1], I(0)>>>>

MatMul3(A, B) ==
    [r \in 1..3 |-> [c \in 1..3 |->
        RAdd(RAdd(RMul(A[r][1], B[1][c]), RMul(A[r][2], B[2][c])),
             RMul(A[r][3], B[3][c]))]]

MatVec3(A, u) ==
    [r \in 1..3 |->
        RAdd(RAdd(RMul(A[r][1], u[1]), RMul(A[r][2], u[2])), RMul(A[r][3], u[3]))]

\* Rodrigues' formula: I + sin(angle) W + (1 - cos(angle)) W W
MatrixFromAxisAngle(axis, angle) ==
    LET W == Skew(axis)
        WW == MatMul3(W, W)
    IN  [r \in 1..3 |-> [c \in 1..3 |->
            RAdd(RAdd(Eye3[r][c], RMul(Sin(angle), W[r][c])),
                 RMul(RSub(I(1), Cos(angle)), WW[r][c]))]]

RLt(a, b) == IsNum(a) /\ IsNum(b) /\ a[1] * b[2] < b[1] * a[2]

Add3(a, b, c) == RAdd(RAdd(a, b), c)
Twice(a) == RMul(I(2), a)
Half(a) == RMul(Rat(1, 2), a)

\* norm_vectors: every row divided by its norm
NormVector(v) == [k \in 1..Len(v) |-> RDiv(v[k], Norm(v))]

\* matrices_from_quaternions, one quaternion (w, x, y, z)
MatrixFromQuaternion(q) ==
    LET w == q[1]
        x == q[2]
        y == q[3]
        z == q[4]
        xx == Twice(RMul(x, x))
        yy == Twice(RMul(y, y))
        zz == Twice(RMul(z, z))
        xy == Twice(RMul(x, y))
        xz == Twice(RMul(x, z))
        yz == Twice(RMul(y, z))
        xw == Twice(RMul(x, w))
        yw == Twice(RMul(y, w))
        zw == Twice(RMul(z, w))
    IN  <<<<RSub(RSub(I(1), yy), zz), RSub(xy, zw), RAdd(xz, yw)>>,
          <<RAdd(xy, zw), RSub(RSub(I(1), xx), zz), RSub(yz, xw)>>,
          <<RSub(xz, yw), RAdd(yz, xw), RSub(RSub(I(1), xx), yy)>>>>

\* quaternions_from_matrices, one rotation matrix: the branch on the trace
\* and on the largest diagonal element
QuaternionFromMatrix(R) ==
    LET trace == Add3(R[1][1], R[2][2], R[3][3])
    IN  IF RLt(I(0), trace)
        THEN LET s == RSqrt(RAdd(I(1), trace))
                 f == RDiv(Rat(1, 2), s)
             IN  <<Half(s), RMul(f, RSub(R[3][2], R[2][3])),
                   RMul(f, RSub(R[1][3], R[3][1])), RMul(f, RSub(R[2][1], R[1][2]))>>
        ELSE IF RLt(R[2][2], R[1][1]) /\ RLt(R[3][3], R[1][1])
        THEN LET s == RSqrt(RSub(RSub(RAdd(I(1), R[1][1]), R[2][2]), R[3][3]))
                 f == RDiv(Rat(1, 2), s)
             IN  <<RMul(f, RSub(R[3][2], R[2][3])), Half(s),
                   RMul(f, RAdd(R[2][1], R[1][2])), RMul(f, RAdd(R[1][3], R[3][1]))>>
        ELSE IF RLt(R[3][3], R[2][2])
        THEN LET s == RSqrt(RSub(RSub(RAdd(I(1), R[2][2]), R[1][1]), R[3][3]))
                 f == RDiv(Rat(1, 2), s)
             IN  <<RMul(f, RSub(R[1][3], R[3][1])), RMul(f, RAdd(R[2][1], R[1][2])),
                   Half(s), RMul(f, RAdd(R[3][2], R[2][3]))>>
        ELSE LET s == RSqrt(RSub(RSub(RAdd(I(1), R[3][3]), R[1][1]), R[2][2]))
                 f == RDiv(Rat(1, 2), s)
             IN  <<RMul(f, RSub(R[2][1], R[1][2])), RMul(f, RAdd(R[1][3], R[3][1])),
                   RMul(f, RAdd(R[3][2], R[2][3])), Half(s)>>

(***************************************************************************)
(* transforms_from_exponential_coordinates                                 *)
(***************************************************************************)
\* exponential coordinates (omega, v) whose angle norm(omega) is 0, 1, 2 or 3
ExpSamples ==
    {RVec(<<0, 0, 0, 1, 2, 3>>), RVec(<<0, 0, 0, 0, 0, 0>>),
     RVec(<<0, 0, 1, 0, 0, 0>>), RVec(<<2, 0, 0, -1, 0, 2>>),
     RVec(<<1, -2, 2, 1, 2, 3>>), RVec(<<-2, 2, 1, -1, 0, 2>>)}

ExpInputs == Arrays(ExpSamples, <<6>>)

\* the leading shape of an array whose instances have `k` trailing axes
Lead(a, k) == SubSeq(a.shape, 1, Len(a.shape) - k)

\* the translation of the general branch, from one row of screw_axes and
\* its t, term by term as the code computes it
TransTerms(sa, t) ==
    LET tms == RSub(t, Sin(t))
        cm1 == RSub(Cos(t), I(1))
        o0 == sa[1]
        o1 == sa[2]
        o2 == sa[3]
    IN  [t |-> t, v0 |-> sa[4], v1 |-> sa[5], v2 |-> sa[6],
         o01tms |-> RMul(RMul(o0, o1), tms),
         o12tms |-> RMul(RMul(o1, o2), tms),
         o02tms |-> RMul(RMul(o0, o2), tms),
         o0cm1 |-> RMul(o0, cm1),
         o1cm1 |-> RMul(o1, cm1),
         o2cm1 |-> RMul(o2, cm1),
         o00tms |-> RMul(RMul(o0, o0), tms),
         o11tms |-> RMul(RMul(o1, o1), tms),
         o22tms |-> RMul(RMul(o2, o2), tms)]

Trans0(x) ==
    RAdd(RAdd(RMul(RNeg(x.v0), RSub(RAdd(x.o11tms, x.o22tms), x.t)),
              RMul(x.v1, RAdd(x.o01tms, x.o2cm1))),
         RMul(x.v2, RSub(x.o02tms, x.o1cm1)))

\* mutant: the middle term added instead of subtracted
Trans1_SignSlip(x) ==
    RAdd(RAdd(RMul(x.v0, RSub(x.o01tms, x.o2cm1)),
              RMul(x.v1, RSub(RAdd(x.o00tms, x.o22tms), x.t))),
         RMul(x.v2, RAdd(x.o0cm1, x.o12tms)))

Trans1(x) ==
    RAdd(RSub(RMul(x.v0, RSub(x.o01tms, x.o2cm1)),
              RMul(x.v1, RSub(RAdd(x.o00tms, x.o22tms), x.t))),
         RMul(x.v2, RAdd(x.o0cm1, x.o12tms)))

Trans2(x) ==
    RSub(RSub(RMul(x.v0, RAdd(x.o02tms, x.o1cm1)),
              RMul(x.v1, RSub(x.o0cm1, x.o12tms))),
         RMul(x.v2, RSub(RAdd(x.o00tms, x.o11tms), x.t)))

\* transform_from_exponential_coordinates, the single-instance routine
TransformFromExpCoords(S) ==
    LET w == SubSeq(S, 1, 3)
        t == Norm(w)
        sa == [k \in 1..6 |-> RDiv(S[k], t)]
        x == TransTerms(sa, t)
        R == IF t = I(0) THEN Eye3 ELSE MatrixFromAxisAngle(SubSeq(sa, 1, 3), t)
        p == IF t = I(0) THEN SubSeq(S, 4, 6) ELSE <<Trans0(x), Trans1(x), Trans2(x)>>
    IN  [r \in 1..4 |-> [c \in 1..4 |->
            IF r = 4 THEN (IF c = 4 THEN I(1) ELSE I(0))
            ELSE IF c = 4 THEN p[r] ELSE R[r][c]]]

NoRef == Ref("")
NoExc == <<"", 0>>

\* the caller calls f with its arrays: parameter name -> array
Call(f, args, scalars) ==
    /\ pc = "idle"
    /\ fn' = f
    /\ heap' = args
    /\ caller' = args
    /\ env' = [n \in DOMAIN args |-> Ref(n)] @@ scalars
    /\ ret' = NoRef
    /\ exc' = NoExc
    /\ divs' = FALSE

\* mutant: the leading shape taken as (len(Sthetas),)
InstancesShape_Len(S) == <<S.shape[1]>>

\* instances_shape = Sthetas.shape[:-1]
InstancesShape(S) == Lead(S, 1)

\* mutant: the bottom row written as zeros
BottomRowValue_Zero == RVec(<<0, 0, 0, 0>>)

\* the constant written to H[..., 3, :]
BottomRowValue == RVec(<<0, 0, 0, 1>>)

\* mutant: np.any in place of np.all
SkipGeneral_Any(ind) == \E i \in DOMAIN ind : ind[i]

\* not np.all(ind_only_translation) decides whether the general branch runs
SkipGeneral(ind) == \A i \in DOMAIN ind : ind[i]

\* mutant: no placeholder written
Placeholder_None(ind, t) == t

\* t[ind_only_translation] = 1.0
Placeholder(ind, t) == [i \in DOMAIN t |-> IF ind[i] THEN I(1) ELSE t[i]]

\* mutant: the angular part copied, Sthetas[ind_only_translation, :3]
DegenerateTranslation_Angular(S) == SubSeq(S, 1, 3)

\* Sthetas[ind_only_translation, 3:], one row
DegenerateTranslation(S) == SubSeq(S, 4, 6)

ExpCall ==
    /\ pc = "idle"
    /\ \E a \in ExpInputs : Call("transforms_from_exponential_coordinates",
                                 "Sthetas" :> a, <<>>)
    /\ pc' = "exp67"

\* Sthetas = np.asarray(Sthetas); a 1-dimensional input goes to the
\* single-instance routine
ExpAsArray ==
    /\ pc = "exp67"
    /\ LET a == AsArray(heap, "asarray(Sthetas)", env["Sthetas"])
           S == a.heap[a.ref.buf]
       IN  IF Len(S.shape) = 1
           THEN /\ heap' = a.heap @@
                       ("single" :> NewArray(<<4, 4>>,
                                             <<TransformFromExpCoords(S.inst[1])>>))
                /\ env' = [env EXCEPT !["Sthetas"] = a.ref]
                /\ ret' = Ref("single")
                /\ pc' = "done"
           ELSE /\ heap' = a.heap
                /\ env' = [env EXCEPT !["Sthetas"] = a.ref]
                /\ ret' = ret
                /\ pc' = "exp73"
    /\ UNCHANGED <<fn, caller, exc, divs>>

\* instances_shape = Sthetas.shape[:-1]; t = np.linalg.norm(Sthetas[..., :3], axis=-1)
ExpNorm ==
    /\ pc = "exp73"
    /\ LET S == heap[env["Sthetas"].buf]
       IN  heap' = heap @@
               ("new t" :> NewArray(InstancesShape(S),
                                [i \in DOMAIN S.inst |-> Norm(SubSeq(S.inst[i], 1, 3))]))
    /\ env' = env @@ ("t" :> Ref("new t"))
    /\ pc' = "exp75"
    /\ UNCHANGED <<fn, caller, ret, exc, divs>>

\* H = np.empty(instances_shape + (4, 4)); H[..., 3, :] = (0, 0, 0, 1)
ExpAlloc ==
    /\ pc = "exp75"
    /\ LET S == heap[env["Sthetas"].buf]
           Row == [i \in DOMAIN S.inst |-> BottomRow(BottomRowValue)]
       IN  heap' = heap @@
               ("new H" :> WriteCells(EmptyH(InstancesShape(S)), All, BottomCells, Row, 76))
    /\ env' = env @@ ("H" :> Ref("new H"))
    /\ pc' = "exp78"
    /\ UNCHANGED <<fn, caller, ret, exc, divs>>

\* ind_only_translation = t == 0.0; if not np.all(ind_only_translation):
ExpMask ==
    /\ pc = "exp78"
    /\ LET t == heap[env["t"].buf]
           ind == [i \in DOMAIN t.inst |-> t.inst[i] = I(0)]
       IN  /\ heap' = heap @@ ("new ind_only_translation" :> NewArray(t.shape, ind))
           /\ pc' = IF SkipGeneral(ind) THEN "exp134" ELSE "exp81"
    /\ env' = env @@ ("ind_only_translation" :> Ref("new ind_only_translation"))
    /\ UNCHANGED <<fn, caller, ret, exc, divs>>

\* t[ind_only_translation] = 1.0
ExpPlaceholder ==
    /\ pc = "exp81"
    /\ LET ind == heap[env["ind_only_translation"].buf].inst
       IN  heap' = [heap EXCEPT ![env["t"].buf].inst = Placeholder(ind, @)]
    /\ pc' = "exp82"
    /\ UNCHANGED <<fn, env, caller, ret, exc, divs>>

\* screw_axes = Sthetas / t[..., np.newaxis]
ExpDivide ==
    /\ pc = "exp82"
    /\ LET S == heap[env["Sthetas"].buf]
           t == heap[env["t"].buf].inst
       IN  /\ heap' = heap @@
                 ("new screw_axes" :> NewArray(S.shape,
                     [i \in DOMAIN S.inst |-> [k \in 1..6 |-> RDiv(S.inst[i][k], t[i])]]))
           /\ divs' = (divs \/ \E i \in DOMAIN t : t[i] = I(0))
    /\ env' = env @@ ("screw_axes" :> Ref("new screw_axes"))
    /\ pc' = "exp84"
    /\ UNCHANGED <<fn, caller, ret, exc>>

\* matrix_from_compact_axis_angles(axes=screw_axes[..., :3], angles=t,
\*                                 out=H[..., :3, :3])
ExpRotation ==
    /\ pc = "exp84"
    /\ LET sa == heap[env["screw_axes"].buf].inst
           t == heap[env["t"].buf].inst
           R == [i \in DOMAIN sa |-> MatrixFromAxisAngle(SubSeq(sa[i], 1, 3), t[i])]
       IN  heap' = [heap EXCEPT ![env["H"].buf] = WriteCells(@, All, RotCells, R, 84)]
    /\ pc' = "exp124"
    /\ UNCHANGED <<fn, env, caller, ret, exc, divs>>

\* H[..., 0, 3] = ...; H[..., 1, 3] = ...; H[..., 2, 3] = ...
ExpTranslation ==
    /\ pc \in {"exp124", "exp127", "exp130"}
    /\ LET sa == heap[env["screw_axes"].buf].inst
           t == heap[env["t"].buf].inst
           X == [i \in DOMAIN sa |-> TransTerms(sa[i], t[i])]
           V0 == [i \in DOMAIN sa |-> (1 :> (4 :> Trans0(X[i])))]
           V1 == [i \in DOMAIN sa |-> (2 :> (4 :> Trans1(X[i])))]
           V2 == [i \in DOMAIN sa |-> (3 :> (4 :> Trans2(X[i])))]
       IN  \/ /\ pc = "exp124"
              /\ heap' = [heap EXCEPT ![env["H"].buf] =
                              WriteCells(@, All, {<<1, 4>>}, V0, 124)]
              /\ pc' = "exp127"
           \/ /\ pc = "exp127"
              /\ heap' = [heap EXCEPT ![env["H"].buf] =
                              WriteCells(@, All, {<<2, 4>>}, V1, 127)]
              /\ pc' = "exp130"
           \/ /\ pc = "exp130"
              /\ heap' = [heap EXCEPT ![env["H"].buf] =
                              WriteCells(@, All, {<<3, 4>>}, V2, 130)]
              /\ pc' = "exp134"
    /\ UNCHANGED <<fn, env, caller, ret, exc, divs>>

\* H[ind_only_translation, :3, :3] = np.eye(3)
ExpEye ==
    /\ pc = "exp134"
    /\ LET ind == heap[env["ind_only_translation"].buf].inst
           E == [i \in DOMAIN ind |-> Eye3]
       IN  heap' = [heap EXCEPT ![env["H"].buf] = WriteCells(@, ind, RotCells, E, 134)]
    /\ pc' = "exp135"
    /\ UNCHANGED <<fn, env, caller, ret, exc, divs>>

\* H[ind_only_translation, :3, 3] = Sthetas[ind_only_translation, 3:]; return H
ExpCopy ==
    /\ pc = "exp135"
    /\ LET ind == heap[env["ind_only_translation"].buf].inst
           S == heap[env["Sthetas"].buf].inst
           V == [i \in DOMAIN S |-> Column(DegenerateTranslation(S[i]))]
       IN  heap' = [heap EXCEPT ![env["H"].buf] = WriteCells(@, ind, TransCells, V, 135)]
    /\ ret' = env["H"]
    /\ pc' = "done"
    /\ UNCHANGED <<fn, env, caller, exc, divs>>

(***************************************************************************)
(* transforms_from_pqs and pqs_from_transforms                             *)
(***************************************************************************)
Frac(v, d) == [k \in 1..Len(v) |-> Rat(v[k], d)]

\* poses (x, y, z, qw, qx, qy, qz): with a unit quaternion, with a
\* quaternion of norm 2, and with the zero quaternion
UnitPoseSamples ==
    {RVec(<<1, 2, 3>>) \o Frac(<<1, 0, 0, 0>>, 1),
     RVec(<<-1, 0, 2>>) \o Frac(<<1, 1, 1, 1>>, 2),
     RVec(<<1, 2, 3>>) \o Frac(<<-3, 0, 4, 0>>, 5),
     RVec(<<0, -2, 1>>) \o Frac(<<0, 2, -1, 2>>, 3)}
PoseSamples ==
    UnitPoseSamples \cup {RVec(<<-1, 0, 2>>) \o Frac(<<1, -1, 1, 1>>, 1),
                          RVec(<<1, 2, 3>>) \o Frac(<<0, 0, 0, 0>>, 1)}

PqInputs == Arrays(PoseSamples, <<7>>)

\* the homogeneous matrix of a rotation block and a translation
Homogeneous(R, p) ==
    [r \in 1..4 |-> [c \in 1..4 |->
        IF r = 4 THEN (IF c = 4 THEN I(1) ELSE I(0))
        ELSE IF c = 4 THEN p[r] ELSE R[r][c]]]

MatrixSamples ==
    {Homogeneous(MatrixFromQuaternion(SubSeq(x, 4, 7)), SubSeq(x, 1, 3)) :
        x \in UnitPoseSamples}

TqInputs == Arrays(MatrixSamples, <<4, 4>>)

Raise(e, line) ==
    /\ pc' = "raised"
    /\ exc' = <<e, line>>
    /\ UNCHANGED <<fn, heap, env, caller, ret, divs>>

\* mutant: P[:, :4]
PqPositionIndex_Four == <<Colon, UpTo(4)>>

\* the index of P[:, :3]
PqPositionIndex == <<Colon, UpTo(3)>>

\* mutant: the bottom row read, H[:, 3, :3]
TqPositionOf_Row(M) == [k \in 1..3 |-> M[4][k]]

\* H[:, :3, 3], one matrix
TqPositionOf(M) == [k \in 1..3 |-> M[k][4]]

PqCall ==
    /\ pc = "idle"
    /\ \E a \in PqInputs, n \in BOOLEAN :
            Call("transforms_from_pqs", "P" :> a, "normalize_quaternions" :> n)
    /\ pc' = "pq25"

\* P = np.asarray(P); H = np.empty((len(P), 4, 4))
PqAsArray ==
    /\ pc = "pq25"
    /\ LET a == AsArray(heap, "asarray(P)", env["P"])
           P == a.heap[a.ref.buf]
       IN  /\ heap' = a.heap @@ ("new H" :> EmptyH(<<P.shape[1]>>))
           /\ env' = [env EXCEPT !["P"] = a.ref] @@ ("H" :> Ref("new H"))
    /\ pc' = "pq27"
    /\ UNCHANGED <<fn, caller, ret, exc, divs>>

\* H[:, :3, 3] = P[:, :3]
PqPosition ==
    /\ pc = "pq27"
    /\ LET P == heap[env["P"].buf]
           H == heap[env["H"].buf]
           rhs == IndexShape(P.shape, PqPositionIndex)
           lhs == IndexShape(H.shape, <<Colon, UpTo(3), At(3)>>)
           V == [i \in DOMAIN P.inst |-> Column(SubSeq(P.inst[i], 1, 3))]
       IN  IF ~rhs.ok THEN Raise("IndexError", 27)
           ELSE IF ~Broadcastable(rhs.shape, lhs.shape) THEN Raise("ValueError", 27)
           ELSE /\ heap' = [heap EXCEPT ![env["H"].buf] =
                                WriteCells(@, All, TransCells, V, 27)]
                /\ pc' = "pq28"
                /\ UNCHANGED <<fn, env, caller, ret, exc, divs>>

\* H[:, 3, :3] = 0.0; H[:, 3, 3] = 1.0
PqBottom ==
    /\ pc = "pq28"
    /\ LET Zero == [i \in DOMAIN heap[env["H"].buf].inst |-> BottomRow(RVec(<<0, 0, 0>>))]
           One == [i \in DOMAIN heap[env["H"].buf].inst |-> BottomRow(4 :> I(1))]
       IN  heap' = [heap EXCEPT ![env["H"].buf] =
                        WriteCells(WriteCells(@, All, {4} \X (1..3), Zero, 28),
                                   All, {<<4, 4>>}, One, 29)]
    /\ pc' = "pq31"
    /\ UNCHANGED <<fn, env, caller, ret, exc, divs>>

\* Q = norm_vectors(P[:, 3:]) if normalize_quaternions else P[:, 3:]
PqNormalize ==
    /\ pc = "pq31"
    /\ LET Pq == View(env["P"], 3)
           rows == Rows(heap, Pq)
       IN  IF env["normalize_quaternions"]
           THEN /\ heap' = heap @@
                       ("new Q" :> NewArray(<<Len(rows), 4>>,
                                        [i \in DOMAIN rows |-> NormVector(rows[i])]))
                /\ env' = env @@ ("Q" :> Ref("new Q"))
                /\ divs' = (divs \/ \E i \in DOMAIN rows : Norm(rows[i]) = I(0))
           ELSE /\ heap' = heap
                /\ env' = env @@ ("Q" :> Pq)
                /\ divs' = divs
    /\ pc' = "pq36"
    /\ UNCHANGED <<fn, caller, ret, exc>>

\* matrices_from_quaternions(Q, out=H[:, :3, :3]); return H
PqRotation ==
    /\ pc = "pq36"
    /\ LET Q == Rows(heap, env["Q"])
           R == [i \in DOMAIN Q |-> MatrixFromQuaternion(Q[i])]
       IN  heap' = [heap EXCEPT ![env["H"].buf] = WriteCells(@, All, RotCells, R, 36)]
    /\ IF fn = "plot_trajectory"
       THEN pc' = "plot182" /\ ret' = ret
       ELSE pc' = "done" /\ ret' = env["H"]
    /\ UNCHANGED <<fn, env, caller, exc, divs>>

TqCall ==
    /\ pc = "idle"
    /\ \E a \in TqInputs : Call("pqs_from_transforms", "H" :> a, <<>>)
    /\ pc' = "tq58"

\* the caller hands the matrices transforms_from_pqs returned to
\* pqs_from_transforms
RoundTrip ==
    /\ pc = "done"
    /\ fn = "transforms_from_pqs"
    /\ fn' = "pqs_from_transforms"
    /\ env' = ("H" :> ret) @@ ("pqs" :> env["P"])
                @@ ("normalize_quaternions" :> env["normalize_quaternions"])
    /\ caller' = [b \in DOMAIN heap |-> heap[b]]
    /\ ret' = NoRef
    /\ pc' = "tq58"
    /\ UNCHANGED <<heap, exc, divs>>

\* H = np.asarray(H); P = np.empty((len(H), 7))
TqAsArray ==
    /\ pc = "tq58"
    /\ LET a == AsArray(heap, "asarray(H)", env["H"])
           H == a.heap[a.ref.buf]
       IN  /\ heap' = a.heap @@ ("new P" :> EmptyP(H.shape[1]))
           /\ env' = [env EXCEPT !["H"] = a.ref] @@ ("P" :> Ref("new P"))
    /\ pc' = "tq60"
    /\ UNCHANGED <<fn, caller, ret, exc, divs>>

\* P[:, :3] = H[:, :3, 3]
TqPosition ==
    /\ pc = "tq60"
    /\ LET P == heap[env["P"].buf]
           H == heap[env["H"].buf]
           rhs == IndexShape(H.shape, <<Colon, UpTo(3), At(3)>>)
           lhs == IndexShape(P.shape, <<Colon, UpTo(3)>>)
           V == [i \in DOMAIN H.inst |-> TqPositionOf(H.inst[i])]
       IN  IF ~rhs.ok THEN Raise("IndexError", 60)
           ELSE IF ~Broadcastable(rhs.shape, lhs.shape) THEN Raise("ValueError", 60)
           ELSE /\ heap' = [heap EXCEPT ![env["P"].buf] = WriteComps(@, 1..3, V, 60)]
                /\ pc' = "tq61"
                /\ UNCHANGED <<fn, env, caller, ret, exc, divs>>

\* quaternions_from_matrices(H[:, :3, :3], out=P[:, 3:]); return P
TqQuaternion ==
    /\ pc = "tq61"
    /\ LET H == heap[env["H"].buf]
           V == [i \in DOMAIN H.inst |->
                    LET q == QuaternionFromMatrix(H.inst[i])
                    IN  [k \in 4..7 |-> q[k - 3]]]
       IN  heap' = [heap EXCEPT ![env["P"].buf] = WriteComps(@, 4..7, V, 61)]
    /\ ret' = env["P"]
    /\ pc' = "done"
    /\ UNCHANGED <<fn, env, caller, exc, divs>>

(***************************************************************************)
(* plot_trajectory                                                         *)
(***************************************************************************)
None == [kind |-> "None", shape |-> <<>>, inst |-> <<>>]

\* a Matplotlib 3d axis and the artists added to it
Axis == [kind |-> "axis", shape |-> <<>>, inst |-> <<>>]

EmptyList == [kind |-> "list", shape |-> <<0>>, inst |-> <<>>]

PlotInputs == {None, EmptyList} \cup PqInputs

\* mutant: only P is None
IsEmptyTrajectory_NoneOnly(P) == P.kind = "None"

\* P is None or len(P) == 0
IsEmptyTrajectory(P) == P.kind = "None" \/ P.shape[1] = 0

PlotCall ==
    /\ pc = "idle"
    /\ \E P \in PlotInputs, ax \in {None, Axis}, n \in BOOLEAN :
            Call("plot_trajectory", ("P" :> P) @@ ("ax" :> ax),
                 "normalize_quaternions" :> n)
    /\ pc' = "plot175"

\* if P is None or len(P) == 0: raise ValueError
PlotCheck ==
    /\ pc = "plot175"
    /\ LET P == heap[env["P"].buf]
       IN  IF IsEmptyTrajectory(P)
           THEN Raise("ValueError", 176)
           ELSE /\ pc' = "plot178"
                /\ UNCHANGED <<fn, heap, env, caller, ret, exc, divs>>

\* if ax is None: ax = make_3d_axis(ax_s); then the call of transforms_from_pqs
PlotAxis ==
    /\ pc = "plot178"
    /\ IF heap[env["ax"].buf].kind = "None"
       THEN /\ heap' = heap @@ ("new ax" :> Axis)
            /\ env' = [env EXCEPT !["ax"] = Ref("new ax")]
       ELSE UNCHANGED <<heap, env>>
    /\ pc' = "pq25"
    /\ UNCHANGED <<fn, caller, ret, exc, divs>>

\* trajectory = Trajectory(H, ...); trajectory.add_trajectory(ax); return ax
PlotPresent ==
    /\ pc = "plot182"
    /\ heap' = [heap EXCEPT ![env["ax"].buf].inst =
                    Append(@, heap[env["H"].buf].inst)]
    /\ ret' = env["ax"]
    /\ pc' = "done"
    /\ UNCHANGED <<fn, env, caller, exc, divs>>

(***************************************************************************)
(* cam2sensor and sensor2img                                               *)
(***************************************************************************)
CamSamples == {RVec(<<2, 4, 2>>), RVec(<<-3, 0, 1>>), RVec(<<1, 1, 0>>)}
CamInputs == {a \in Arrays(CamSamples, <<3>>) : Len(a.shape) = 2}
FocalLengths == {I(1), I(2)}
Kappas == {I(0), I(1)}

SensorSamples == {RVec(<<1, 2>>), RVec(<<-3, 0>>)}
SensorInputs == {a \in Arrays(SensorSamples, <<2>>) : Len(a.shape) = 2}

\* a pair given as a tuple (np.asarray copies it) or as an ndarray
Pair(v, k) == [kind |-> k, shape |-> <<2>>, inst |-> <<RVec(v)>>]
ImageSizes == {Pair(<<4, 2>>, k) : k \in Kinds}
SensorSizes == {Pair(<<2, 1>>, k) : k \in Kinds}
ImageCenters == {None} \cup {Pair(<<1, 3>>, k) : k \in Kinds}

CamCall ==
    /\ pc = "idle"
    /\ \E a \in CamInputs, f \in FocalLengths, k \in Kappas :
            Call("cam2sensor", "P_cam" :> a, ("focal_length" :> f) @@ ("kappa" :> k))
    /\ pc' = "cam89"

\* P_sensor = P_cam[:, :2] / P_cam[:, 2, np.newaxis]; a list cannot be
\* indexed by a tuple
CamDivide ==
    /\ pc = "cam89"
    /\ LET P == heap[env["P_cam"].buf]
       IN  IF P.kind # "ndarray" THEN Raise("TypeError", 89)
           ELSE /\ heap' = heap @@
                       ("new P_sensor" :> NewArray(<<P.shape[1], 2>>,
                           [i \in DOMAIN P.inst |->
                               [k \in 1..2 |-> RDiv(P.inst[i][k], P.inst[i][3])]]))
                /\ env' = env @@ ("P_sensor" :> Ref("new P_sensor")) @@ ("n" :> 0)
                /\ divs' = (divs \/ \E i \in DOMAIN P.inst : P.inst[i][3] = I(0))
                /\ pc' = "cam90"
                /\ UNCHANGED <<fn, caller, ret, exc>>

\* for n in range(P_sensor.shape[0]):
\*     P_sensor[n] *= 1.0 / (1.0 + kappa * np.linalg.norm(P_sensor[n]) ** 2)
CamDistort ==
    /\ pc = "cam90"
    /\ LET b == env["P_sensor"].buf
           n == env["n"]
           row == heap[b].inst[n + 1]
           f == RDiv(I(1), RAdd(I(1), RMul(env["kappa"], SumSq(row, 2))))
       IN  IF n < heap[b].shape[1]
           THEN /\ heap' = [heap EXCEPT ![b].inst[n + 1] =
                               [k \in 1..2 |-> RMul(row[k], f)]]
                /\ env' = [env EXCEPT !["n"] = n + 1]
                /\ pc' = pc
           ELSE /\ pc' = "cam92"
                /\ UNCHANGED <<heap, env>>
    /\ UNCHANGED <<fn, caller, ret, exc, divs>>

\* P_sensor *= focal_length; return P_sensor
CamFocal ==
    /\ pc = "cam92"
    /\ heap' = [heap EXCEPT ![env["P_sensor"].buf].inst =
                    [i \in DOMAIN @ |-> [k \in 1..2 |-> RMul(@[i][k], env["focal_length"])]]]
    /\ ret' = env["P_sensor"]
    /\ pc' = "done"
    /\ UNCHANGED <<fn, env, caller, exc, divs>>

ImgCall ==
    /\ pc = "idle"
    /\ \E P \in SensorInputs, ss \in SensorSizes, is \in ImageSizes,
          ic \in ImageCenters :
            Call("sensor2img",
                 ("P_sensor" :> P) @@ ("sensor_size" :> ss) @@ ("image_size" :> is)
                     @@ ("image_center" :> ic), <<>>)
    /\ pc' = "img101"

\* the pair np.asarray(x) reads
PairOf(h, ref) == Rows(h, ref)[1]

\* mutant: the scaling done in place, P_sensor *= image_size / sensor_size
ImgScale_InPlace ==
    /\ pc = "img101"
    /\ LET is == PairOf(heap, env["image_size"])
           ss == PairOf(heap, env["sensor_size"])
       IN  heap' = [heap EXCEPT ![env["P_sensor"].buf].inst =
                       [i \in DOMAIN @ |->
                           [k \in 1..2 |-> RDiv(RMul(is[k], @[i][k]), ss[k])]]]
    /\ env' = env @@ ("P_img" :> env["P_sensor"])
    /\ pc' = "img102"
    /\ UNCHANGED <<fn, caller, ret, exc, divs>>

\* P_img = np.asarray(image_size) * P_sensor / np.asarray(sensor_size)
ImgScale ==
    /\ pc = "img101"
    /\ LET P == heap[env["P_sensor"].buf]
           is == PairOf(heap, env["image_size"])
           ss == PairOf(heap, env["sensor_size"])
       IN  /\ heap' = heap @@
                 ("new P_img" :> NewArray(P.shape,
                     [i \in DOMAIN P.inst |->
                         [k \in 1..2 |-> RDiv(RMul(is[k], P.inst[i][k]), ss[k])]]))
           /\ divs' = (divs \/ (P.inst # <<>> /\ \E k \in 1..2 : ss[k] = I(0)))
    /\ env' = env @@ ("P_img" :> Ref("new P_img"))
    /\ pc' = "img102"
    /\ UNCHANGED <<fn, caller, ret, exc>>

\* if image_center is None: image_center = np.asarray(image_size) / 2
ImgCenter ==
    /\ pc = "img102"
    /\ IF heap[env["image_center"].buf].kind = "None"
       THEN /\ heap' = heap @@
                   ("new image_center" :> NewArray(<<2>>,
                       <<[k \in 1..2 |-> RDiv(PairOf(heap, env["image_size"])[k], I(2))]>>))
            /\ env' = [env EXCEPT !["image_center"] = Ref("new image_center")]
       ELSE UNCHANGED <<heap, env>>
    /\ pc' = "img104"
    /\ UNCHANGED <<fn, caller, ret, exc, divs>>

\* P_img += np.asarray(image_center); return P_img
ImgOffset ==
    /\ pc = "img104"
    /\ LET ic == PairOf(heap, env["image_center"])
       IN  heap' = [heap EXCEPT ![env["P_img"].buf].inst =
                       [i \in DOMAIN @ |-> [k \in 1..2 |-> RAdd(@[i][k], ic[k])]]]
    /\ ret' = env["P_img"]
    /\ pc' = "done"
    /\ UNCHANGED <<fn, env, caller, exc, divs>>

\* the caller takes the result (or the exception); the next call may start
Finish ==
    /\ pc \in {"done", "raised"}
    /\ pc' = "idle"
    /\ fn' = ""
    /\ heap' = <<>>
    /\ env' = <<>>
    /\ caller' = <<>>
    /\ ret' = NoRef
    /\ exc' = NoExc
    /\ divs' = FALSE

Init ==
    /\ pc = "idle"
    /\ fn = ""
    /\ heap = <<>>
    /\ env = <<>>
    /\ caller = <<>>
    /\ ret = NoRef
    /\ exc = NoExc
    /\ divs = FALSE

Next ==
    \/ ExpCall
    \/ ExpAsArray
    \/ ExpNorm
    \/ ExpAlloc
    \/ ExpMask
    \/ ExpPlaceholder
    \/ ExpDivide
    \/ ExpRotation
    \/ ExpTranslation
    \/ ExpEye
    \/ ExpCopy
    \/ PqCall
    \/ PqAsArray
    \/ PqPosition
    \/ PqBottom
    \/ PqNormalize
    \/ PqRotation
    \/ TqCall
    \/ RoundTrip
    \/ TqAsArray
    \/ TqPosition
    \/ TqQuaternion
    \/ PlotCall
    \/ PlotCheck
    \/ PlotAxis
    \/ PlotPresent
    \/ CamCall
    \/ CamDivide
    \/ CamDistort
    \/ CamFocal
    \/ ImgCall
    \/ ImgScale
    \/ ImgCenter
    \/ ImgOffset
    \/ Finish

Spec == Init /\ [][Next]_vars

(***************************************************************************)
(* Properties                                                              *)
(***************************************************************************)
ExpFn == "transforms_from_exponential_coordinates"

\* the batch path of transforms_from_exponential_coordinates has returned H
BatchDone == pc = "done" /\ fn = ExpFn /\ ret.buf = "new H"

RotOf(M) == [r \in 1..3 |-> [c \in 1..3 |-> M[r][c]]]
TransOf(M) == [r \in 1..3 |-> M[r][4]]
Angular(S) == SubSeq(S, 1, 3)
Linear(S) == SubSeq(S, 4, 6)
Degenerate(S) == Norm(Angular(S)) = I(0)
Zero3 == RVec(<<0, 0, 0>>)
FixedRow == RVec(<<0, 0, 0, 1>>)

\* a batch with a degenerate and a non-degenerate instance
Mixed(x) == (\E i \in DOMAIN x : Degenerate(x[i])) /\ (\E j \in DOMAIN x : ~Degenerate(x[j]))

\* C1: every H that transforms_from_pqs or the batch path of
\* transforms_from_exponential_coordinates has written its bottom row to keeps
\* the row (0, 0, 0, 1) in every instance, through every later write and in the
\* returned array, and the cells are those the constant writes (lines 28-29,
\* line 76) wrote last.
C1_BottomRowFixed ==
    ("new H" \in DOMAIN heap /\ pc \notin {"pq27", "pq28"}
        /\ ~(pc = "raised" /\ exc[2] = 27))
    => \A i \in DOMAIN heap["new H"].inst :
          /\ heap["new H"].inst[i][4] = FixedRow
          /\ heap["new H"].wr[i][4] \in {<<76, 76, 76, 76>>, <<28, 28, 28, 29>>}

\* transforms_from_pqs returned two matrices for quaternions it did not
\* normalize, one of them the zero quaternion
C1_Witness ==
    /\ pc = "done" /\ fn = "transforms_from_pqs"
    /\ ~env["normalize_quaternions"]
    /\ Len(caller["P"].inst) = 2
    /\ \E i \in 1..2 : SubSeq(caller["P"].inst[i], 4, 7) = RVec(<<0, 0, 0, 0>>)

\* C2: in the returned batch, every instance whose angular part is (0, 0, 0)
\* has the identity as rotation block and its linear part (a, b, c), unscaled,
\* as translation column.
C2_DegenerateBranch ==
    BatchDone =>
        \A i \in DOMAIN caller["Sthetas"].inst :
            LET S == caller["Sthetas"].inst[i]
                M == heap[ret.buf].inst[i]
            IN  Angular(S) = Zero3 => RotOf(M) = Eye3 /\ TransOf(M) = Linear(S)

\* a mixed batch whose degenerate instance is (0, 0, 0, 1, 2, 3)
C2_Witness ==
    /\ BatchDone
    /\ Mixed(caller["Sthetas"].inst)
    /\ \E i \in DOMAIN caller["Sthetas"].inst :
          caller["Sthetas"].inst[i] = RVec(<<0, 0, 0, 1, 2, 3>>)

\* (theta I + (1 - cos theta) W + (theta - sin theta) W W) u with
\* (o, u) = (omega, v) / theta and W the skew-symmetric matrix of o
ClosedFormTranslation(S) ==
    LET theta == Norm(Angular(S))
        o == [k \in 1..3 |-> RDiv(S[k], theta)]
        u == [k \in 1..3 |-> RDiv(S[k + 3], theta)]
        W == Skew(o)
        WW == MatMul3(W, W)
        G == [r \in 1..3 |-> [c \in 1..3 |->
                Add3(RMul(theta, Eye3[r][c]),
                     RMul(RSub(I(1), Cos(theta)), W[r][c]),
                     RMul(RSub(theta, Sin(theta)), WW[r][c]))]]
    IN  MatVec3(G, u)

\* C3: in the returned batch, every instance with theta = norm(omega) > 0 has
\* the closed form (theta I + (1 - cos theta) W + (theta - sin theta) W W) u
\* as translation column, written by lines 124-130; with v = (0, 0, 0) the
\* translation is (0, 0, 0).
C3_GeneralTranslation ==
    BatchDone =>
        \A i \in DOMAIN caller["Sthetas"].inst :
            LET S == caller["Sthetas"].inst[i]
                M == heap[ret.buf].inst[i]
            IN  ~Degenerate(S) =>
                    /\ TransOf(M) = ClosedFormTranslation(S)
                    /\ [r \in 1..3 |-> heap[ret.buf].wr[i][r][4]] = <<124, 127, 130>>
                    /\ (Linear(S) = Zero3 => TransOf(M) = Zero3)

\* a returned batch with the instance (1, -2, 2, 1, 2, 3), theta = 3, and one
\* with a rotation and no linear part
C3_Witness ==
    /\ BatchDone
    /\ \E i, j \in DOMAIN caller["Sthetas"].inst :
          /\ caller["Sthetas"].inst[i] = RVec(<<1, -2, 2, 1, 2, 3>>)
          /\ caller["Sthetas"].inst[j] = RVec(<<0, 0, 1, 0, 0, 0>>)

\* the result of one instance, from its own slice alone: the degenerate result
\* when its theta is 0, the general closed form otherwise
PerInstance(S) ==
    IF Degenerate(S)
    THEN Homogeneous(Eye3, Linear(S))
    ELSE LET theta == Norm(Angular(S))
         IN  Homogeneous(
                 MatrixFromAxisAngle([k \in 1..3 |-> RDiv(S[k], theta)], theta),
                 ClosedFormTranslation(S))

\* C4: the output at instance i is a function of the input at instance i
\* alone, whatever the rest of the batch holds: the degenerate result exactly
\* when its own theta is 0 and the general result otherwise.
C4_NoCrossContamination ==
    BatchDone =>
        /\ DOMAIN heap[ret.buf].inst = DOMAIN caller["Sthetas"].inst
        /\ \A i \in DOMAIN caller["Sthetas"].inst :
              heap[ret.buf].inst[i] = PerInstance(caller["Sthetas"].inst[i])

\* a returned mixed batch of leading shape (2, 1)
C4_Witness ==
    /\ BatchDone
    /\ caller["Sthetas"].shape = <<2, 1, 6>>
    /\ Mixed(caller["Sthetas"].inst)

\* C5: the call never raises; an input of shape S + (6,), S of one or more
\* dimensions, gets an H of shape S + (4, 4) from its allocation on, and in the
\* returned H every cell of every instance is written with a number; a
\* 1-dimensional input is returned from the single-instance routine and no
\* batch array is allocated.
C5_ShapePreserved ==
    fn = ExpFn =>
        LET S == caller["Sthetas"]
            L == SubSeq(S.shape, 1, Len(S.shape) - 1)
        IN  /\ pc # "raised"
            /\ "new H" \in DOMAIN heap =>
                  /\ heap["new H"].shape = L \o <<4, 4>>
                  /\ DOMAIN heap["new H"].inst = 1..NumInst(L)
            /\ pc = "done" =>
                  IF Len(S.shape) = 1
                  THEN ret.buf = "single" /\ "new H" \notin DOMAIN heap
                  ELSE /\ ret.buf = "new H"
                       /\ \A i \in 1..NumInst(L), r, c \in 1..4 :
                             /\ IsNum(heap["new H"].inst[i][r][c])
                             /\ heap["new H"].wr[i][r][c] # 0

\* a returned batch of leading shape (1, 2)
C5_Witness ==
    /\ BatchDone
    /\ caller["Sthetas"].shape = <<1, 2, 6>>
    /\ heap[ret.buf].shape = <<1, 2, 4, 4>>

\* C6, as claimed: no input of transforms_from_pqs or pqs_from_transforms,
\* whatever its leading shape, ends in an error.
C6_AnyLeadingShape ==
    fn \in {"transforms_from_pqs", "pqs_from_transforms"} => pc # "raised"

\* C6, amended: an input with exactly one leading dimension, (n, 7) or
\* (n, 4, 4), is converted without error to an output of shape (n, 4, 4) or
\* (n, 7); a single pose (7,) or a single matrix (4, 4) ends in an IndexError
\* and an input with two leading dimensions in a ValueError, both raised by
\* the assignment of the position (line 27, line 60).
C6_OneLeadingDimension ==
    /\ (fn = "transforms_from_pqs" /\ pc \in {"done", "raised"}) =>
          LET P == heap[env["P"].buf]
          IN  CASE Len(P.shape) = 2 ->
                     pc = "done" /\ heap[ret.buf].shape = <<P.shape[1], 4, 4>>
                [] Len(P.shape) = 1 -> pc = "raised" /\ exc = <<"IndexError", 27>>
                [] OTHER -> pc = "raised" /\ exc = <<"ValueError", 27>>
    /\ (fn = "pqs_from_transforms" /\ pc \in {"done", "raised"}) =>
          LET H == heap[env["H"].buf]
          IN  CASE Len(H.shape) = 3 ->
                     pc = "done" /\ heap[ret.buf].shape = <<H.shape[1], 7>>
                [] Len(H.shape) = 2 -> pc = "raised" /\ exc = <<"IndexError", 60>>
                [] OTHER -> pc = "raised" /\ exc = <<"ValueError", 60>>

\* pqs_from_transforms, called with two matrices, returned an array (2, 7)
C6_Witness ==
    /\ pc = "done" /\ fn = "pqs_from_transforms"
    /\ "pqs" \notin DOMAIN env
    /\ caller["H"].shape = <<2, 4, 4>>
    /\ heap[ret.buf].shape = <<2, 7>>

\* pqs_from_transforms has returned for the matrices of transforms_from_pqs
RoundTripDone == pc = "done" /\ fn = "pqs_from_transforms" /\ "pqs" \in DOMAIN env

IsUnit(q) == SumSq(q, 4) = I(1)

\* C7: pqs_from_transforms(transforms_from_pqs(P)) has the position of every
\* pose of P unchanged, normalizing or not, and for a unit quaternion q of P
\* the quaternion q or -q.
C7_RoundTrip ==
    RoundTripDone =>
        LET P0 == heap[env["pqs"].buf].inst
            P1 == heap[ret.buf].inst
        IN  /\ DOMAIN P1 = DOMAIN P0
            /\ \A i \in DOMAIN P0 :
                  LET q0 == SubSeq(P0[i], 4, 7)
                      q1 == SubSeq(P1[i], 4, 7)
                  IN  /\ SubSeq(P1[i], 1, 3) = SubSeq(P0[i], 1, 3)
                      /\ IsUnit(q0) => q1 = q0 \/ q1 = [k \in 1..4 |-> RNeg(q0[k])]

\* a round trip, not normalizing, of two poses, one with the unit quaternion
\* (-3/5, 0, 4/5, 0), which comes back negated
C7_Witness ==
    /\ RoundTripDone
    /\ ~env["normalize_quaternions"]
    /\ Len(heap[ret.buf].inst) = 2
    /\ \E i \in 1..2 :
          /\ SubSeq(heap[env["pqs"].buf].inst[i], 4, 7) = Frac(<<-3, 0, 4, 0>>, 5)
          /\ SubSeq(heap[ret.buf].inst[i], 4, 7) = Frac(<<3, 0, -4, 0>>, 5)

\* the matrix of one pose
PoseMatrix(x, normalize) ==
    Homogeneous(MatrixFromQuaternion(IF normalize THEN NormVector(SubSeq(x, 4, 7))
                                     ELSE SubSeq(x, 4, 7)),
                SubSeq(x, 1, 3))

\* C8: with P None or of length 0, plot_trajectory raises ValueError at line
\* 176 as its first step: nothing is allocated, no axis is created and the
\* caller's axis is as it was; with any other P, plot_trajectory raises
\* nothing itself (an error comes from line 27 of transforms_from_pqs), and on
\* its return the axis holds the matrices of the poses of P, normalized as
\* asked.
C8_EmptyTrajectoryRejected ==
    fn = "plot_trajectory" =>
        LET P == caller["P"]
        IN  IF P.kind = "None" \/ P.shape[1] = 0
            THEN /\ pc \in {"plot175", "raised"}
                 /\ pc = "raised" => exc = <<"ValueError", 176>>
                 /\ heap = caller
            ELSE /\ pc = "raised" => exc[2] = 27
                 /\ pc = "done" =>
                       /\ ret.buf = (IF caller["ax"].kind = "None" THEN "new ax" ELSE "ax")
                       /\ heap[ret.buf].inst =
                             <<[i \in DOMAIN P.inst |->
                                   PoseMatrix(P.inst[i], env["normalize_quaternions"])]>>

\* an empty list, plotted on the caller's axis, was rejected
C8_Witness ==
    /\ fn = "plot_trajectory" /\ pc = "raised"
    /\ caller["P"] = EmptyList
    /\ caller["ax"] = Axis

\* C9: no division of the batch path has a zero divisor; when every instance
\* is degenerate the general computation is skipped (no screw_axes, no write
\* of lines 84-130); and in the returned H the rotation block and the
\* translation column of every degenerate instance were last written by lines
\* 134 and 135.
C9_NoDivisionByZero ==
    fn = ExpFn =>
        /\ ~divs
        /\ "new ind_only_translation" \in DOMAIN heap =>
              LET ind == heap["new ind_only_translation"].inst
              IN  /\ (\A i \in DOMAIN ind : ind[i]) =>
                        /\ "new screw_axes" \notin DOMAIN heap
                        /\ pc \notin {"exp81", "exp82", "exp84", "exp124", "exp127", "exp130"}
                  /\ "new screw_axes" \in DOMAIN heap =>
                        \A i \in DOMAIN ind : heap["new t"].inst[i] # I(0)
                  /\ pc = "done" =>
                        \A i \in DOMAIN ind : ind[i] =>
                            /\ \A r, c \in 1..3 : heap["new H"].wr[i][r][c] = 134
                            /\ \A r \in 1..3 : heap["new H"].wr[i][r][4] = 135

\* a returned batch whose general computation ran with a placeholder
C9_Witness ==
    /\ BatchDone
    /\ "new screw_axes" \in DOMAIN heap
    /\ \E i \in DOMAIN heap["new ind_only_translation"].inst :
          heap["new ind_only_translation"].inst[i]

\* C10: during and after a call of transforms_from_pqs, pqs_from_transforms,
\* transforms_from_exponential_coordinates, cam2sensor or sensor2img every
\* array of the caller holds what it held at the call; the arrays written in
\* place (t, P_sensor, P_img, H, the output P) are not the caller's, and the
\* output buffer handed to RotationMath is not the buffer of its input.
C10_InputsUnchanged ==
    fn \in {"transforms_from_pqs", "pqs_from_transforms", ExpFn, "cam2sensor",
            "sensor2img"} =>
        /\ \A b \in DOMAIN caller : heap[b] = caller[b]
        /\ "t" \in DOMAIN env => env["t"].buf \notin DOMAIN caller
        /\ (fn = "cam2sensor" /\ "P_sensor" \in DOMAIN env) =>
              env["P_sensor"].buf \notin DOMAIN caller
        /\ "P_img" \in DOMAIN env => env["P_img"].buf \notin DOMAIN caller
        /\ pc = "exp84" =>
              env["H"].buf \notin DOMAIN caller \cup {env["screw_axes"].buf, env["t"].buf}
        /\ pc = "pq36" =>
              env["H"].buf \notin DOMAIN caller \cup {env["Q"].buf, env["P"].buf}
        /\ pc = "tq61" => env["P"].buf \notin DOMAIN caller \cup {env["H"].buf}

\* cam2sensor returned after scaling two rows in place, with kappa = 1
C10_Witness ==
    /\ pc = "done" /\ fn = "cam2sensor"
    /\ env["kappa"] = I(1)
    /\ Len(caller["P_cam"].inst) = 2
    /\ heap[ret.buf].inst # [i \in 1..2 |-> SubSeq(caller["P_cam"].inst[i], 1, 2)]

====
